---------------------------- MODULE Spec2Model ----------------------------
(***************************************************************************)
(* Old World League ELO tracker (src/elo_tracker.py).                      *)
(*                                                                         *)
(* The store (players, matches, attendance, week keys) is shared by        *)
(* concurrent script runs.  Every database statement of a handler is one   *)
(* step: a SELECT sees the rows committed so far, a commit writes all the  *)
(* pending changes of its session at once (or none, when a row it updates *)
(* has gone).  Ratings are fixed-point numbers, Unit steps per rating      *)
(* point; probabilities are in millionths.  Match ids are handed out by    *)
(* the database in increasing order and never reused.                      *)
(***************************************************************************)
EXTENDS Integers, Sequences, FiniteSets, TLC

\* ------------------------------------------------------------------ bounds
NumPlayers == 4     \* players of the league
NumProcs   == 2     \* sessions running scripts
NumWeeks   == 2     \* week ids
MaxMatchId == 4     \* match ids the database hands out
MaxAttId   == 4     \* attendance row ids the database hands out
MaxKeyId   == 2     \* week key row ids the database hands out
MaxAdhoc   == 1     \* ad-hoc matches saved
MaxHistory == 3     \* two-sided matches of earlier weeks
GridHalf == 12      \* rating grid: steps on either side of the default rating
GridStep == 333     \* rating grid: step, in tenths of a rating point
NumFactions == 2    \* faction names, numbered in alphabetical order
FirstDay == 738879  \* first date of the window of today's dates: Monday 25/12/2023
NumDays == 70       \* length of the window, to Sunday 03/03/2024

\* ------------------------------------------------------- program constants
Null           == -1        \* None
Unit           == 10        \* fixed-point steps per rating point
Micro          == 1000000   \* fixed-point scale of probabilities
DefaultRating  == 10000     \* 1000.0
KCasual        == 10
KCompetitive   == 40
EloScale       == 4000      \* 400.0 rating points
MaxDiff        == 7999      \* largest rating difference the fixed point carries

PlayerIds == 1..NumPlayers
Procs     == 1..NumProcs
Weeks     == 1..NumWeeks
Results   == {"a_win", "b_win", "draw"}
KFactors  == {KCasual, KCompetitive}
Factions  == {Null, 1}
Passwords == {1, 2}

\* ------------------------------------------------------------- ELO helpers
\* 10^(2^i / 4000) in millionths, i = 0..11
Pow10Bit == <<1000576, 1001152, 1002305, 1004616, 1009253, 1018591,
              1037528, 1076465, 1158777, 1342765, 1803018, 3250873>>

\* a * b / Micro without leaving 32 bits (a, b < 10^7)
MulFx(a, b) ==
    LET ah == a \div 1000  al == a % 1000
        bh == b \div 1000  bl == b % 1000
    IN ah * bh + (ah * bl + al * bh) \div 1000 + (al * bl) \div Micro

RECURSIVE Pow10Frac(_, _)
\* 10^(x / 4000) in millionths for 0 <= x < 4000, bit i upward
Pow10Frac(x, i) ==
    IF x = 0 THEN Micro
    ELSE LET rest == Pow10Frac(x \div 2, i + 1)
         IN IF x % 2 = 1 THEN MulFx(Pow10Bit[i + 1], rest) ELSE rest

\* 10 ** (x / 400.0) in millionths, x >= 0 in rating steps
Pow10(x) ==
    LET c == IF x > MaxDiff THEN MaxDiff ELSE x
    IN IF c >= EloScale THEN 10 * Pow10Frac(c - EloScale, 0) ELSE Pow10Frac(c, 0)

RECURSIVE LongDiv(_, _, _)
\* floor(n * 10^k / d) for n < d, one decimal digit at a time
LongDiv(n, d, k) ==
    IF k = 0 THEN 0
    ELSE LET t == n * 10
         IN (t \div d) * (10 ^ (k - 1)) + LongDiv(t % d, d, k - 1)

\* 1.0 / (1.0 + 10 ** ((ro - rp) / 400.0)), in millionths
expected_score(rp, ro) ==
    LET x  == ro - rp
        pw == Pow10(IF x < 0 THEN -x ELSE x)
    IN IF x = 0 THEN Micro \div 2
       ELSE IF x > 0 THEN LongDiv(Micro, Micro + pw, 6)
       ELSE LongDiv(pw, Micro + pw, 6)

\* nearest integer to n / d (d > 0)
RoundDiv(n, d) == (2 * n + d) \div (2 * d)

\* line 140 with "score_a" in place of "(1 - score_a)" for B
update_elo_same_score(r_a, r_b, score_a, k) ==
    LET e_a == expected_score(r_a, r_b)
        e_b == expected_score(r_b, r_a)
    IN << r_a + RoundDiv(k * Unit * (score_a - e_a), Micro),
          r_b + RoundDiv(k * Unit * (score_a - e_b), Micro) >>

\* score_a in millionths; the pair (new rating of A, new rating of B)
update_elo(r_a, r_b, score_a, k) ==
    LET e_a == expected_score(r_a, r_b)
        e_b == expected_score(r_b, r_a)
    IN << r_a + RoundDiv(k * Unit * (score_a - e_a), Micro),
          r_b + RoundDiv(k * Unit * ((Micro - score_a) - e_b), Micro) >>

ScoreA(result) ==
    IF result = "a_win" THEN Micro ELSE IF result = "b_win" THEN 0 ELSE Micro \div 2

\* ------------------------------------------------------------------- state
VARIABLES
    players,     \* id -> [rating, active]                    (table players)
    matches,     \* id -> Match row                           (table matches)
    nextId,      \* next match id the database hands out
    attendance,  \* set of Attendance rows [id, week, player_id]
    nextAttId,   \* next attendance row id
    weekKeys,    \* set of WeekKey rows [id, week, results_password]
    nextKeyId,   \* next week key row id
    unlocked,    \* session -> weeks with st.session_state["wk_unlocked::w"] true
    pc,          \* session -> position of its running script
    loc,         \* session -> locals of its running handler
    msg          \* <<session, text>>: the st.success / st.error / st.info the
                 \* last step showed, NoMsg when it showed none

dbVars   == <<players, matches, nextId, attendance, nextAttId, weekKeys, nextKeyId>>
vars     == <<players, matches, nextId, attendance, nextAttId, weekKeys, nextKeyId,
              unlocked, pc, loc, msg>>

NoLoc == [h |-> "none"]
NoMsg == <<0, "none">>

\* class Match: a freshly inserted row
NewMatch(week, a, b) ==
    [week |-> week, player_a_id |-> a, player_b_id |-> b, result |-> "pending",
     a_rating_before |-> Null, b_rating_before |-> Null,
     a_rating_after |-> Null, b_rating_after |-> Null,
     k_factor_used |-> Null, a_faction |-> Null, b_faction |-> Null]

\* class Player: a freshly inserted row
NewPlayer(rating, active) == [rating |-> rating, active |-> active, faction |-> Null]

MatchIds        == DOMAIN matches
WeekMatches(w)  == {id \in MatchIds : matches[id].week = w}
Insert(f, k, v) == [i \in DOMAIN f \cup {k} |-> IF i = k THEN v ELSE f[i]]
Remove(f, ks)   == [i \in DOMAIN f \ ks |-> f[i]]

\* the script run of session p ends, showing m
Finish(p, m) ==
    /\ pc'  = [pc EXCEPT ![p] = "idle"]
    /\ loc' = [loc EXCEPT ![p] = NoLoc]
    /\ msg' = <<p, m>>

\* session p goes on to position l with locals r
Goto(p, l, r) ==
    /\ pc'  = [pc EXCEPT ![p] = l]
    /\ loc' = [loc EXCEPT ![p] = r]
    /\ msg' = NoMsg

\* lines 193-206 without "w += 1" for a BYE
RecordOfNoBye(m, player_id) ==
    IF m.player_b_id = Null \/ m.result = "pending" THEN <<0, 0, 0>>
    ELSE IF m.result = "draw" THEN <<0, 1, 0>>
    ELSE IF m.result = "a_win"
         THEN IF m.player_a_id = player_id THEN <<1, 0, 0>> ELSE <<0, 0, 1>>
    ELSE IF m.result = "b_win"
         THEN IF m.player_b_id = player_id THEN <<1, 0, 0>> ELSE <<0, 0, 1>>
    ELSE <<0, 0, 0>>

\* lines 192-206: what one row m adds to (w, d, l) of player_id
RecordOf(m, player_id) ==
    IF m.player_b_id = Null
    THEN IF m.player_a_id = player_id /\ m.result # "pending"
         THEN <<1, 0, 0>> ELSE <<0, 0, 0>>
    ELSE IF m.result = "pending" THEN <<0, 0, 0>>
    ELSE IF m.result = "draw" THEN <<0, 1, 0>>
    ELSE IF m.result = "a_win"
         THEN IF m.player_a_id = player_id THEN <<1, 0, 0>> ELSE <<0, 0, 1>>
    ELSE IF m.result = "b_win"
         THEN IF m.player_b_id = player_id THEN <<1, 0, 0>> ELSE <<0, 0, 1>>
    ELSE <<0, 0, 0>>

\* lines 187, 191: the loop over the rows ids of ms
RECURSIVE SumRecords(_, _, _)
SumRecords(ms, ids, player_id) ==
    IF ids = {} THEN <<0, 0, 0>>
    ELSE LET id   == CHOOSE i \in ids : \A j \in ids : i <= j
             one  == RecordOf(ms[id], player_id)
             rest == SumRecords(ms, ids \ {id}, player_id)
         IN <<one[1] + rest[1], one[2] + rest[2], one[3] + rest[3]>>

\* player_record: (wins, draws, losses) of player_id over the rows ms
player_record(ms, player_id) ==
    SumRecords(ms, {id \in DOMAIN ms :
                      player_id \in {ms[id].player_a_id, ms[id].player_b_id}},
               player_id)

\* lines 151-153 (side "a") and 155-157 (side "b"): one loop,
\* counts[f] = counts.get(f, 0) + 1 for every row with the player on that side
RECURSIVE FactionCounts(_, _, _, _, _)
FactionCounts(ms, ids, player_id, side, counts) ==
    IF ids = {} THEN counts
    ELSE LET id   == CHOOSE i \in ids : \A j \in ids : i <= j
             m    == ms[id]
             f    == IF side = "a" THEN m.a_faction ELSE m.b_faction
             mine == IF side = "a" THEN m.player_a_id = player_id
                     ELSE m.player_b_id = player_id
             get  == IF f \in DOMAIN counts THEN counts[f] ELSE 0
             new  == IF mine /\ f # Null
                     THEN [g \in DOMAIN counts \cup {f} |->
                              IF g = f THEN get + 1 ELSE counts[g]]
                     ELSE counts
         IN FactionCounts(ms, ids \ {id}, player_id, side, new)

\* line 161 with the name descending among equal counts
LastByCountThenName(counts) ==
    CHOOSE f \in DOMAIN counts :
        \A g \in DOMAIN counts :
            \/ counts[f] > counts[g]
            \/ counts[f] = counts[g] /\ f >= g

\* line 161: sorted(counts.items(), key=(-count, name))[0][0]
FirstByCountThenName(counts) ==
    CHOOSE f \in DOMAIN counts :
        \A g \in DOMAIN counts :
            \/ counts[f] > counts[g]
            \/ counts[f] = counts[g] /\ f <= g

\* most_played_faction: None without counts, else the first of the sort
most_played_faction(ms, player_id) ==
    LET asA    == FactionCounts(ms, DOMAIN ms, player_id, "a", <<>>)
        counts == FactionCounts(ms, DOMAIN ms, player_id, "b", asA)
    IN IF DOMAIN counts = {} THEN Null ELSE FirstByCountThenName(counts)

\* lines 455-459: the faction pickers of the result forms default to the most
\* played faction of each listed player
MF_Prefs(p) ==
    /\ pc[p] = "idle"
    /\ Goto(p, "mf_shown",
            [h |-> "faction_prefs",
             prefs |-> [i \in DOMAIN players |-> most_played_faction(matches, i)]])
    /\ UNCHANGED <<dbVars, unlocked>>

\* lines 460-463: the pickers are shown
MF_Shown(p) ==
    /\ pc[p] = "mf_shown"
    /\ Finish(p, "prefs_shown")
    /\ UNCHANGED <<dbVars, unlocked>>

\* lines 369-373: the leaderboard computes the record of every listed player
LB_Render(p, show_archived) ==
    /\ pc[p] = "idle"
    /\ Goto(p, "lb_shown",
            [h |-> "leaderboard",
             records |-> [i \in {j \in DOMAIN players : show_archived \/ players[j].active}
                            |-> player_record(matches, i)]])
    /\ UNCHANGED <<dbVars, unlocked>>

\* lines 374-376: the table is shown
LB_Shown(p) ==
    /\ pc[p] = "lb_shown"
    /\ Finish(p, "leaderboard")
    /\ UNCHANGED <<dbVars, unlocked>>

\* ---------------------------------------------------------------- week ids
\* a date is its proleptic Gregorian ordinal: day 1 is Monday 01/01/0001
IsLeap(y) == y % 4 = 0 /\ (y % 100 # 0 \/ y % 400 = 0)

DaysInMonth(y, m) ==
    IF m = 2 THEN (IF IsLeap(y) THEN 29 ELSE 28)
    ELSE IF m \in {4, 6, 9, 11} THEN 30 ELSE 31

\* the days of year y before its month m
RECURSIVE DaysBeforeMonth(_, _)
DaysBeforeMonth(y, m) ==
    IF m = 1 THEN 0 ELSE DaysBeforeMonth(y, m - 1) + DaysInMonth(y, m - 1)

\* the days before 1 January of year y
DaysBeforeYear(y) ==
    LET z == y - 1 IN z * 365 + (z \div 4) - (z \div 100) + (z \div 400)

\* the year, month and day of ordinal n, by the cycles of 400, 100, 4 and 1 years
ord2ymd(n) ==
    LET n0   == n - 1
        n400 == n0 \div 146097
        r400 == n0 % 146097
        n100 == r400 \div 36524
        r100 == r400 % 36524
        n4   == r100 \div 1461
        r4   == r100 % 1461
        n1   == r4 \div 365
        r1   == r4 % 365
        year == n400 * 400 + n100 * 100 + n4 * 4 + n1 + 1
    IN IF n1 = 4 \/ n100 = 4 THEN <<year - 1, 12, 31>>
       ELSE LET month == CHOOSE m \in 1..12 :
                            /\ DaysBeforeMonth(year, m) <= r1
                            /\ r1 < DaysBeforeMonth(year, m) + DaysInMonth(year, m)
            IN <<year, month, r1 - DaysBeforeMonth(year, month) + 1>>

\* d.weekday(): Monday is 0, Sunday is 6
weekday(d) == (d + 6) % 7

Digit == <<"0", "1", "2", "3", "4", "5", "6", "7", "8", "9">>
Dig(v) == Digit[v + 1]

\* uk_date_str: strftime("%d/%m/%Y"), the ten characters of DD/MM/YYYY
uk_date_str(d) ==
    LET ymd == ord2ymd(d)
        y == ymd[1]  m == ymd[2]  dd == ymd[3]
    IN << Dig(dd \div 10), Dig(dd % 10), "/", Dig(m \div 10), Dig(m % 10), "/",
          Dig((y \div 1000) % 10), Dig((y \div 100) % 10), Dig((y \div 10) % 10),
          Dig(y % 10) >>

\* line 176 with "3 - d.weekday()"
week_id_thu(d) == uk_date_str(d + (3 - weekday(d)))

\* week_id_wed: the formatted Wednesday of the week of d
week_id_wed(d) ==
    LET offset == 2 - weekday(d)
        wednesday == d + offset
    IN uk_date_str(wednesday)

\* the dates date.today() returns
Days == FirstDay..(FirstDay + NumDays - 1)

\* lines 431, 603, 779: the page is drawn with the week id of today as default
WK_Render(p, today) ==
    /\ pc[p] = "idle"
    /\ Goto(p, "wk_shown", [h |-> "week", today |-> today, week |-> week_id_wed(today)])
    /\ UNCHANGED <<dbVars, unlocked>>

\* the page has been drawn
WK_Shown(p) ==
    /\ pc[p] = "wk_shown"
    /\ Finish(p, "week_shown")
    /\ UNCHANGED <<dbVars, unlocked>>

\* ---------------------------------------------------------------- week lock
\* week_password: the password of the first WeekKey row of the week, or None
WeekRows(w) == {r \in weekKeys : r.week = w}
FirstKeyRow(w) == CHOOSE r \in WeekRows(w) : \A q \in WeekRows(w) : r.id <= q.id
week_password(w) ==
    IF WeekRows(w) = {} THEN Null ELSE FirstKeyRow(w).results_password

\* ------------------------------------------------------------ Enter Results
\* lines 431-438: the lock gate of the page
SR_Gate(p, w) ==
    /\ pc[p] = "idle"
    /\ IF week_password(w) # Null /\ w \notin unlocked[p]
       THEN Finish(p, "locked")
       ELSE Goto(p, "sr_list", [h |-> "save_result", week |-> w])
    /\ UNCHANGED <<dbVars, unlocked>>

\* lines 440-447: the matches of the week; the form of match mid is submitted
SR_List(p) ==
    /\ pc[p] = "sr_list"
    /\ IF WeekMatches(loc[p].week) = {}
       THEN Finish(p, "no_matches")
       ELSE \E mid \in WeekMatches(loc[p].week) :
              Goto(p, "sr_get", [h |-> "save_result", mid |-> mid])
    /\ UNCHANGED <<dbVars, unlocked>>

\* the check of line 471 without "match.result != 'pending'"
ResultOpenAnyResult(mid) == mid \in MatchIds

\* line 471: may the submission go on
ResultOpen(mid) == mid \in MatchIds /\ matches[mid].result = "pending"

\* lines 469-471: s2.get(Match, m.id) and the pending check
SR_Get(p) ==
    /\ pc[p] = "sr_get"
    /\ IF ~ResultOpen(loc[p].mid)
       THEN Finish(p, "already_recorded")
       ELSE Goto(p, "sr_pa",
                 [h |-> "save_result", mid |-> loc[p].mid,
                  a |-> matches[loc[p].mid].player_a_id,
                  b |-> matches[loc[p].mid].player_b_id])
    /\ UNCHANGED <<dbVars, unlocked>>

\* line 473: pa = s2.get(Player, match.player_a_id)
SR_GetA(p) ==
    /\ pc[p] = "sr_pa"
    /\ IF loc[p].a \notin DOMAIN players
       THEN Finish(p, "error")
       ELSE Goto(p, IF loc[p].b = Null THEN "sr_commit" ELSE "sr_pb",
                 [h |-> "save_result", mid |-> loc[p].mid, a |-> loc[p].a,
                  b |-> loc[p].b, ra |-> players[loc[p].a].rating, rb |-> Null])
    /\ UNCHANGED <<dbVars, unlocked>>

\* line 473: pb = s2.get(Player, match.player_b_id)
SR_GetB(p) ==
    /\ pc[p] = "sr_pb"
    /\ IF loc[p].b \notin DOMAIN players
       THEN Finish(p, "error")
       ELSE Goto(p, "sr_commit", [loc[p] EXCEPT !.rb = players[loc[p].b].rating])
    /\ UNCHANGED <<dbVars, unlocked>>

\* lines 474-478 with match.result = "draw" in place of "a_win"
ByeRowDraw(m, ra, af) ==
    [m EXCEPT !.result = "draw", !.a_rating_before = ra, !.b_rating_before = Null,
              !.a_rating_after = ra, !.k_factor_used = Null,
              !.a_faction = af, !.b_faction = Null]

\* lines 474-478: the row of a BYE as the session writes it
ByeRow(m, ra, af) ==
    [m EXCEPT !.result = "a_win", !.a_rating_before = ra, !.b_rating_before = Null,
              !.a_rating_after = ra, !.k_factor_used = Null,
              !.a_faction = af, !.b_faction = Null]

\* lines 474, 480-482 without "match.k_factor_used = int(k)"
ResultRowNoK(m, ra, rb, result, k, af, bf) ==
    LET new == update_elo(ra, rb, ScoreA(result), k)
    IN [m EXCEPT !.result = result, !.a_rating_before = ra, !.b_rating_before = rb,
                 !.a_rating_after = new[1], !.b_rating_after = new[2],
                 !.a_faction = af, !.b_faction = bf]

\* lines 474, 480-482: the row of a two-sided match as the session writes it
ResultRow(m, ra, rb, result, k, af, bf) ==
    LET new == update_elo(ra, rb, ScoreA(result), k)
    IN [m EXCEPT !.result = result, !.a_rating_before = ra, !.b_rating_before = rb,
                 !.a_rating_after = new[1], !.b_rating_after = new[2],
                 !.k_factor_used = k, !.a_faction = af, !.b_faction = bf]

\* the UPDATEs of a commit reach their rows
RowsThere(mid, a, b) ==
    /\ mid \in MatchIds
    /\ a \in DOMAIN players
    /\ b # Null => b \in DOMAIN players

\* lines 474-483: s2.commit() writes the match and both ratings
SR_Commit(p, result, k, af, bf) ==
    /\ pc[p] = "sr_commit"
    /\ LET l == loc[p] IN
       IF ~RowsThere(l.mid, l.a, l.b)
       THEN /\ Finish(p, "error")
            /\ UNCHANGED <<players, matches>>
       ELSE IF l.b = Null
       THEN /\ matches' = [matches EXCEPT ![l.mid] = ByeRow(@, l.ra, af)]
            /\ players' = players
            /\ Finish(p, "bye_recorded")
       ELSE LET row == ResultRow(matches[l.mid], l.ra, l.rb, result, k, af, bf) IN
            /\ matches' = [matches EXCEPT ![l.mid] = row]
            /\ players' = [players EXCEPT ![l.a].rating = row.a_rating_after,
                                          ![l.b].rating = row.b_rating_after]
            /\ Finish(p, "saved")
    /\ UNCHANGED <<nextId, attendance, nextAttId, weekKeys, nextKeyId, unlocked>>

\* ------------------------------------------------------------- Ad-Hoc Match
\* line 818 with "disabled = False" at line 812
AH_GetASame(p, w, a, b) ==
    /\ pc[p] = "idle"
    /\ a \in DOMAIN players /\ b \in DOMAIN players
    /\ Goto(p, "ah_pb", [h |-> "adhoc", week |-> w, a |-> a, b |-> b,
                         ra |-> players[a].rating, rb |-> Null, mid |-> Null])
    /\ UNCHANGED <<dbVars, unlocked>>

\* line 818: pa = s3.get(Player, pid_a)
AH_GetA(p, w, a, b) ==
    /\ pc[p] = "idle"
    /\ a # b
    /\ a \in DOMAIN players /\ b \in DOMAIN players
    /\ Goto(p, "ah_pb", [h |-> "adhoc", week |-> w, a |-> a, b |-> b,
                         ra |-> players[a].rating, rb |-> Null, mid |-> Null])
    /\ UNCHANGED <<dbVars, unlocked>>

\* line 818: pb = s3.get(Player, pid_b)
AH_GetB(p) ==
    /\ pc[p] = "ah_pb"
    /\ IF loc[p].b \notin DOMAIN players
       THEN Finish(p, "error")
       ELSE Goto(p, "ah_ins", [loc[p] EXCEPT !.rb = players[loc[p].b].rating])
    /\ UNCHANGED <<dbVars, unlocked>>

\* lines 819-820: the pending row is inserted and committed, then refreshed
AH_Insert(p, af, bf) ==
    /\ pc[p] = "ah_ins"
    /\ LET l == loc[p] IN
       /\ matches' = Insert(matches, nextId,
              [NewMatch(l.week, l.a, l.b) EXCEPT !.a_rating_before = l.ra,
                   !.b_rating_before = l.rb, !.a_faction = af, !.b_faction = bf])
       /\ nextId' = nextId + 1
       /\ Goto(p, "ah_ra", [l EXCEPT !.mid = nextId, !.ra = Null, !.rb = Null])
    /\ UNCHANGED <<players, attendance, nextAttId, weekKeys, nextKeyId, unlocked>>

\* line 822: pa.rating of the expired pa is loaded again
AH_ReloadA(p) ==
    /\ pc[p] = "ah_ra"
    /\ IF loc[p].a \notin DOMAIN players
       THEN Finish(p, "error")
       ELSE Goto(p, "ah_rb", [loc[p] EXCEPT !.ra = players[loc[p].a].rating])
    /\ UNCHANGED <<dbVars, unlocked>>

\* line 822: pb.rating of the expired pb is loaded again
AH_ReloadB(p) ==
    /\ pc[p] = "ah_rb"
    /\ IF loc[p].b \notin DOMAIN players
       THEN Finish(p, "error")
       ELSE Goto(p, "ah_commit", [loc[p] EXCEPT !.rb = players[loc[p].b].rating])
    /\ UNCHANGED <<dbVars, unlocked>>

\* line 823: the fields of the refreshed row the session changes
AdhocRow(m, ra, rb, result, k) ==
    LET new == update_elo(ra, rb, ScoreA(result), k)
    IN [m EXCEPT !.result = result, !.a_rating_after = new[1],
                 !.b_rating_after = new[2], !.k_factor_used = k]

\* the commit of line 824 without "pa.rating = new_a; pb.rating = new_b"
AH_CommitMatchOnly(p, result, k) ==
    /\ pc[p] = "ah_commit"
    /\ LET l == loc[p] IN
       IF ~RowsThere(l.mid, l.a, l.b)
       THEN /\ Finish(p, "error")
            /\ UNCHANGED <<players, matches>>
       ELSE /\ matches' = [matches EXCEPT
                             ![l.mid] = AdhocRow(@, l.ra, l.rb, result, k)]
            /\ players' = players
            /\ Finish(p, "adhoc_saved")
    /\ UNCHANGED <<nextId, attendance, nextAttId, weekKeys, nextKeyId, unlocked>>

\* lines 821-826: the result and both ratings are committed (826 repeats 824)
AH_Commit(p, result, k) ==
    /\ pc[p] = "ah_commit"
    /\ LET l == loc[p] IN
       IF ~RowsThere(l.mid, l.a, l.b)
       THEN /\ Finish(p, "error")
            /\ UNCHANGED <<players, matches>>
       ELSE LET row == AdhocRow(matches[l.mid], l.ra, l.rb, result, k) IN
            /\ matches' = [matches EXCEPT ![l.mid] = row]
            /\ players' = [players EXCEPT ![l.a].rating = row.a_rating_after,
                                          ![l.b].rating = row.b_rating_after]
            /\ Finish(p, "adhoc_saved")
    /\ UNCHANGED <<nextId, attendance, nextAttId, weekKeys, nextKeyId, unlocked>>

\* ----------------------------------------------------------------- Pairings
\* the ids marked present for the week (lines 657, 682, 726)
PresentIds(w) == {r.player_id : r \in {q \in attendance : q.week = w}}

Min2(a, b) == IF a < b THEN a ELSE b
Max2(a, b) == IF a < b THEN b ELSE a
\* (a, b) without sorted()
PairOfUnsorted(a, b) == <<a, b>>

\* tuple(sorted([a, b]))
PairOf(a, b) == <<Min2(a, b), Max2(a, b)>>

\* line 212 with "or m.result == 'pending'" added to the skip
fetch_past_pairs_reported ==
    {PairOf(matches[id].player_a_id, matches[id].player_b_id) :
        id \in {i \in MatchIds : /\ matches[i].player_b_id # Null
                                 /\ matches[i].result # "pending"}}

\* fetch_past_pairs: the sorted pair of every match that is not a BYE
fetch_past_pairs ==
    {PairOf(matches[id].player_a_id, matches[id].player_b_id) :
        id \in {i \in MatchIds : matches[i].player_b_id # Null}}

\* the orders select(Player).where(active).order_by(rating.desc()) may return:
\* the order among equal ratings is the database's
ActiveIds == {i \in DOMAIN players : players[i].active}

\* the query of line 220 without ".where(Player.active == True)"
SortedAll ==
    {s \in [1..Cardinality(DOMAIN players) -> DOMAIN players] :
        /\ \A i, j \in DOMAIN s : i # j => s[i] # s[j]
        /\ \A i, j \in DOMAIN s : i < j => players[s[i]].rating >= players[s[j]].rating}

SortedActive ==
    {s \in [1..Cardinality(ActiveIds) -> ActiveIds] :
        /\ \A i, j \in DOMAIN s : i # j => s[i] # s[j]
        /\ \A i, j \in DOMAIN s : i < j => players[s[i]].rating >= players[s[j]].rating}

\* [x for x in ids if x in keep]
RECURSIVE Filter(_, _)
Filter(ids, keep) ==
    IF ids = <<>> THEN <<>>
    ELSE IF Head(ids) \in keep THEN <<Head(ids)>> \o Filter(Tail(ids), keep)
    ELSE Filter(Tail(ids), keep)

\* line 222: "if restrict_to:" holds for a set that is neither None nor empty
Restricts(hasRestrict, restrict) == hasRestrict /\ restrict # {}

\* lines 221-222: the ids the pass walks over
PoolIds(order, hasRestrict, restrict) ==
    IF Restricts(hasRestrict, restrict) THEN Filter(order, restrict) ELSE order

\* lines 229-233 (fresh) and 235-238: the first unused candidate from position j
RECURSIVE FirstOpp(_, _, _, _, _, _)
FirstOpp(ids, j, used, pid, past, fresh) ==
    IF j > Len(ids) THEN Null
    ELSE IF ids[j] \in used THEN FirstOpp(ids, j + 1, used, pid, past, fresh)
    ELSE IF fresh /\ PairOf(pid, ids[j]) \in past
         THEN FirstOpp(ids, j + 1, used, pid, past, fresh)
    ELSE ids[j]

\* lines 227-233 without the fallback of lines 234-238
OpponentFreshOnly(ids, i, used, past) ==
    FirstOpp(ids, i + 1, used, ids[i], past, TRUE)

\* lines 227-238: the opponent of ids[i]
Opponent(ids, i, used, past) ==
    LET o == FirstOpp(ids, i + 1, used, ids[i], past, TRUE)
    IN IF o # Null THEN o ELSE FirstOpp(ids, i + 1, used, ids[i], past, FALSE)

\* lines 225-240: the pairings of the greedy pass from position i
RECURSIVE Pairings(_, _, _, _)
Pairings(ids, i, used, past) ==
    IF i > Len(ids) THEN <<>>
    ELSE IF ids[i] \in used THEN Pairings(ids, i + 1, used, past)
    ELSE LET opp == Opponent(ids, i, used, past)
         IN IF opp = Null
            THEN <<<<ids[i], Null>>>> \o Pairings(ids, i + 1, used \cup {ids[i]}, past)
            ELSE <<<<ids[i], opp>>>>
                 \o Pairings(ids, i + 1, used \cup {ids[i], opp}, past)

\* the check of lines 679-680 looking at pending matches only
G_CheckPendingOnly(p, w) ==
    /\ pc[p] = "idle"
    /\ IF \E id \in WeekMatches(w) : matches[id].result = "pending"
       THEN Finish(p, "pairings_exist")
       ELSE Goto(p, "g_att", [h |-> "handler", week |-> w])
    /\ UNCHANGED <<dbVars, unlocked>>

\* lines 677-680: the handler looks for matches of the week
G_Check(p, w) ==
    /\ pc[p] = "idle"
    /\ IF WeekMatches(w) # {}
       THEN Finish(p, "pairings_exist")
       ELSE Goto(p, "g_att", [h |-> "handler", week |-> w])
    /\ UNCHANGED <<dbVars, unlocked>>

\* lines 682-684: restrict = attendance_ids if attendance_ids else None
G_Att(p) ==
    /\ pc[p] = "g_att"
    /\ Goto(p, "g_players",
            [h |-> "handler", week |-> loc[p].week,
             hasRestrict |-> PresentIds(loc[p].week) # {},
             restrict |-> PresentIds(loc[p].week)])
    /\ UNCHANGED <<dbVars, unlocked>>

\* generate_weekly_pairings(session, week, restrict_to) called as a function
G_Call(p, w, hasRestrict, restrict) ==
    /\ pc[p] = "idle"
    /\ Goto(p, "g_players", [h |-> "call", week |-> w,
                             hasRestrict |-> hasRestrict,
                             restrict |-> IF hasRestrict THEN restrict ELSE {}])
    /\ UNCHANGED <<dbVars, unlocked>>

\* lines 220-223: the active players by rating, restricted; none: return []
G_Players(p) ==
    /\ pc[p] = "g_players"
    /\ \E order \in SortedActive :
         LET ids == PoolIds(order, loc[p].hasRestrict, loc[p].restrict) IN
         IF ids = <<>>
         THEN Finish(p, "no_players")
         ELSE Goto(p, "g_past",
                   [h |-> loc[p].h, week |-> loc[p].week,
                    hasRestrict |-> loc[p].hasRestrict, restrict |-> loc[p].restrict,
                    ids |-> ids])
    /\ UNCHANGED <<dbVars, unlocked>>

\* lines 224-240: the past pairs are read and the pass is made
G_Past(p) ==
    /\ pc[p] = "g_past"
    /\ Goto(p, "g_ins",
            [h |-> loc[p].h, week |-> loc[p].week,
             hasRestrict |-> loc[p].hasRestrict, restrict |-> loc[p].restrict,
             ids |-> loc[p].ids, past |-> fetch_past_pairs,
             pairings |-> Pairings(loc[p].ids, 1, {}, fetch_past_pairs), done |-> 0])
    /\ UNCHANGED <<dbVars, unlocked>>

\* lines 242-244: one pairing is inserted as a pending row and committed
G_Insert(p) ==
    /\ pc[p] = "g_ins"
    /\ LET l == loc[p]
           pr == l.pairings[l.done + 1] IN
       /\ matches' = Insert(matches, nextId, NewMatch(l.week, pr[1], pr[2]))
       /\ nextId' = nextId + 1
       /\ IF l.done + 1 = Len(l.pairings)
          THEN Finish(p, "created")
          ELSE Goto(p, "g_ins", [l EXCEPT !.done = l.done + 1])
    /\ UNCHANGED <<players, attendance, nextAttId, weekKeys, nextKeyId, unlocked>>

\* lines 616-618 with "if True:" at line 618
RS_ReadAll(p, w, include_reported) ==
    /\ pc[p] = "idle"
    /\ Goto(p, "rs_commit",
            [h |-> "reset", week |-> w, include_reported |-> include_reported,
             ms |-> [id \in WeekMatches(w) |-> matches[id].result],
             ids |-> WeekMatches(w)])
    /\ UNCHANGED <<dbVars, unlocked>>

\* lines 616-618: the matches of the week are read; those to delete are marked
RS_Read(p, w, include_reported) ==
    /\ pc[p] = "idle"
    /\ Goto(p, "rs_commit",
            [h |-> "reset", week |-> w, include_reported |-> include_reported,
             ms |-> [id \in WeekMatches(w) |-> matches[id].result],
             ids |-> {id \in WeekMatches(w) :
                         include_reported \/ matches[id].result = "pending"}])
    /\ UNCHANGED <<dbVars, unlocked>>

\* lines 619-623: the marked rows are deleted and the deletion committed
RS_Commit(p) ==
    /\ pc[p] = "rs_commit"
    /\ matches' = Remove(matches, loc[p].ids)
    /\ Finish(p, "reset")
    /\ UNCHANGED <<players, nextId, attendance, nextAttId, weekKeys, nextKeyId,
                   unlocked>>

\* lines 690, 696-706: the matches of the looked-up week are listed; some of
\* those offered are selected and the button is pressed
DS_List(p, lookup, allow_reported_delete, selected_ids) ==
    /\ pc[p] = "idle"
    /\ selected_ids # {}
    /\ selected_ids \subseteq
          {id \in WeekMatches(lookup) :
              allow_reported_delete \/ matches[id].result = "pending"}
    /\ Goto(p, "ds_get",
            [h |-> "delete_selected", allow |-> allow_reported_delete,
             todo |-> selected_ids, ids |-> {}])
    /\ UNCHANGED <<dbVars, unlocked>>

\* lines 708-713: the next selected match is read again and, when it is there
\* and may be deleted, marked
DS_Get(p) ==
    /\ pc[p] = "ds_get"
    /\ LET l == loc[p]
           mid == CHOOSE x \in l.todo : \A y \in l.todo : x <= y
           del == /\ mid \in MatchIds
                  /\ l.allow \/ matches[mid].result = "pending"
           r == [l EXCEPT !.todo = l.todo \ {mid},
                          !.ids = IF del THEN l.ids \cup {mid} ELSE l.ids]
       IN Goto(p, IF r.todo = {} THEN "ds_commit" ELSE "ds_get", r)
    /\ UNCHANGED <<dbVars, unlocked>>

\* line 714: the marked rows are deleted and the deletion committed
DS_Commit(p) ==
    /\ pc[p] = "ds_commit"
    /\ matches' = Remove(matches, loc[p].ids)
    /\ Finish(p, "deleted_selected")
    /\ UNCHANGED <<players, nextId, attendance, nextAttId, weekKeys, nextKeyId,
                   unlocked>>

\* ------------------------------------------------- Manual pairing editor
ByeTok == 0      \* the token "BYE"
BadTok == -2     \* a token that is neither "BYE" nor all digits

\* lines 741-749: the ids of the tokens, "BYE" skipped
RECURSIVE TokenIds(_)
TokenIds(tokens) ==
    IF tokens = <<>> THEN <<>>
    ELSE IF Head(tokens) = ByeTok THEN TokenIds(Tail(tokens))
    ELSE <<Head(tokens)>> \o TokenIds(Tail(tokens))

SeqSet(q) == {q[i] : i \in DOMAIN q}

\* lines 747-752 without the duplicate check of lines 753-754
ManualValidNoDup(tokens) ==
    /\ BadTok \notin SeqSet(tokens)
    /\ Len(TokenIds(tokens)) # 0

\* lines 747-754: the input is taken
ManualValid(tokens) ==
    /\ BadTok \notin SeqSet(tokens)
    /\ Len(TokenIds(tokens)) # 0
    /\ Len(TokenIds(tokens)) = Cardinality(SeqSet(TokenIds(tokens)))

\* lines 739-758: the input is checked; with clear_pending the pending rows
\* of the week are read
MP_Start(p, w, tokens, clear_pending) ==
    /\ pc[p] = "idle"
    /\ IF ~ManualValid(tokens)
       THEN Finish(p, "invalid_input")
       ELSE IF clear_pending
       THEN Goto(p, "mp_clear",
                 [h |-> "manual", week |-> w, tokens |-> tokens,
                  ids |-> TokenIds(tokens), done |-> 0,
                  pend |-> {id \in WeekMatches(w) : matches[id].result = "pending"}])
       ELSE Goto(p, "mp_ins",
                 [h |-> "manual", week |-> w, tokens |-> tokens,
                  ids |-> TokenIds(tokens), done |-> 0,
                  pend |-> {}])
    /\ UNCHANGED <<dbVars, unlocked>>

\* lines 759-760: the rows read are deleted and the deletion committed
MP_Clear(p) ==
    /\ pc[p] = "mp_clear"
    /\ matches' = Remove(matches, loc[p].pend)
    /\ Goto(p, "mp_ins", [loc[p] EXCEPT !.pend = {}])
    /\ UNCHANGED <<players, nextId, attendance, nextAttId, weekKeys, nextKeyId,
                   unlocked>>

\* lines 763-772 with "if i+2 < len(ids)" at line 766
MP_InsertStrict(p) ==
    /\ pc[p] = "mp_ins"
    /\ LET l == loc[p]
           a == l.ids[l.done + 1]
           two == l.done + 2 < Len(l.ids)
           b == IF two THEN l.ids[l.done + 2] ELSE Null
           n == IF two THEN l.done + 2 ELSE l.done + 1 IN
       /\ matches' = Insert(matches, nextId, NewMatch(l.week, a, b))
       /\ nextId' = nextId + 1
       /\ IF n >= Len(l.ids)
          THEN Finish(p, "manual_applied")
          ELSE Goto(p, "mp_ins", [l EXCEPT !.done = n])
    /\ UNCHANGED <<players, attendance, nextAttId, weekKeys, nextKeyId, unlocked>>

\* lines 763-772: the next one or two ids become a pending row, committed
MP_Insert(p) ==
    /\ pc[p] = "mp_ins"
    /\ LET l == loc[p]
           a == l.ids[l.done + 1]
           two == l.done + 2 <= Len(l.ids)
           b == IF two THEN l.ids[l.done + 2] ELSE Null
           n == IF two THEN l.done + 2 ELSE l.done + 1 IN
       /\ matches' = Insert(matches, nextId, NewMatch(l.week, a, b))
       /\ nextId' = nextId + 1
       /\ IF n >= Len(l.ids)
          THEN Finish(p, "manual_applied")
          ELSE Goto(p, "mp_ins", [l EXCEPT !.done = n])
    /\ UNCHANGED <<players, attendance, nextAttId, weekKeys, nextKeyId, unlocked>>

\* ------------------------------------------------------- Archive / Restore
\* lines 549-551: p.active = False
Archive(p, id) ==
    /\ pc[p] = "idle"
    /\ id \in DOMAIN players /\ players[id].active
    /\ players' = [players EXCEPT ![id].active = FALSE]
    /\ Finish(p, "archived")
    /\ UNCHANGED <<matches, nextId, attendance, nextAttId, weekKeys, nextKeyId,
                   unlocked>>

\* lines 554-556: p.active = True
Restore(p, id) ==
    /\ pc[p] = "idle"
    /\ id \in DOMAIN players /\ ~players[id].active
    /\ players' = [players EXCEPT ![id].active = TRUE]
    /\ Finish(p, "restored")
    /\ UNCHANGED <<matches, nextId, attendance, nextAttId, weekKeys, nextKeyId,
                   unlocked>>

\* ------------------------------------------------------------ Delete player
\* the matches with player id on either side
MatchesOf(id) ==
    {m \in MatchIds : id \in {matches[m].player_a_id, matches[m].player_b_id}}

\* lines 581 and 587: the matches of the selected player are read
DP_ReadM(p, id, hard_delete) ==
    /\ pc[p] = "idle"
    /\ id \in DOMAIN players
    /\ Goto(p, "dp_att", [h |-> "delete_player", id |-> id, hard |-> hard_delete,
                          ms |-> MatchesOf(id)])
    /\ UNCHANGED <<dbVars, unlocked>>

\* lines 583 and 588-590: the attendance rows of the player are read; without
\* the checkbox a player with related rows is refused
DP_ReadA(p) ==
    /\ pc[p] = "dp_att"
    /\ LET as == {r.id : r \in {q \in attendance : q.player_id = loc[p].id}} IN
       IF loc[p].hard
       THEN Goto(p, "dp_cascade", [h |-> "delete_player", id |-> loc[p].id,
                                   ms |-> loc[p].ms, as |-> as])
       ELSE IF loc[p].ms # {} \/ as # {}
       THEN Finish(p, "delete_blocked")
       ELSE Goto(p, "dp_get", [h |-> "delete_player", id |-> loc[p].id])
    /\ UNCHANGED <<dbVars, unlocked>>

\* lines 582-585: the rows read are deleted and the deletion committed
DP_Cascade(p) ==
    /\ pc[p] = "dp_cascade"
    /\ matches' = Remove(matches, loc[p].ms \cap MatchIds)
    /\ attendance' = {r \in attendance : r.id \notin loc[p].as}
    /\ Goto(p, "dp_get", [h |-> "delete_player", id |-> loc[p].id])
    /\ UNCHANGED <<players, nextId, nextAttId, weekKeys, nextKeyId, unlocked>>

\* lines 591-592: pl = s.get(Player, sel_id); if pl
DP_Get(p) ==
    /\ pc[p] = "dp_get"
    /\ IF loc[p].id \in DOMAIN players
       THEN Goto(p, "dp_commit", loc[p])
       ELSE Finish(p, "none")
    /\ UNCHANGED <<dbVars, unlocked>>

\* lines 593-594: s.delete(pl); s.commit()
DP_Commit(p) ==
    /\ pc[p] = "dp_commit"
    /\ players' = Remove(players, {loc[p].id} \cap DOMAIN players)
    /\ Finish(p, "player_deleted")
    /\ UNCHANGED <<matches, nextId, attendance, nextAttId, weekKeys, nextKeyId,
                   unlocked>>

\* --------------------------------------------------------------- Attendance
\* the rows of the selected ids, numbered from nextAttId in ascending id order
NewAttendance(w, sel) ==
    {[id |-> nextAttId + Cardinality({j \in sel : j < i}), week |-> w,
      player_id |-> i] : i \in sel}

\* lines 664-666: the rows of the week are read
SA_Read(p, w, sel) ==
    /\ pc[p] = "idle"
    /\ sel \subseteq ActiveIds
    /\ Goto(p, "sa_commit", [h |-> "attendance", week |-> w, sel |-> sel,
                             rows |-> {r.id : r \in {q \in attendance : q.week = w}}])
    /\ UNCHANGED <<dbVars, unlocked>>

\* lines 668-669 without "for r in existing: s.delete(r)"
SA_CommitAppend(p) ==
    /\ pc[p] = "sa_commit"
    /\ attendance' = attendance \cup NewAttendance(loc[p].week, loc[p].sel)
    /\ nextAttId' = nextAttId + Cardinality(loc[p].sel)
    /\ Finish(p, "attendance_saved")
    /\ UNCHANGED <<players, matches, nextId, weekKeys, nextKeyId, unlocked>>

\* lines 667-669 (and 674-675 with nothing selected): the rows read are deleted,
\* the selected ids inserted, and both committed
SA_Commit(p) ==
    /\ pc[p] = "sa_commit"
    /\ attendance' = {r \in attendance : r.id \notin loc[p].rows}
                        \cup NewAttendance(loc[p].week, loc[p].sel)
    /\ nextAttId' = nextAttId + Cardinality(loc[p].sel)
    /\ Finish(p, "attendance_saved")
    /\ UNCHANGED <<players, matches, nextId, weekKeys, nextKeyId, unlocked>>

\* ------------------------------------------------------ Week password (admin)
\* lines 410, 415, 425: the first row of the week is read
PW_Read(p, w, password) ==
    /\ pc[p] = "idle"
    /\ Goto(p, "pw_write",
            [h |-> "password", week |-> w, password |-> password,
             row |-> IF WeekRows(w) = {} THEN Null ELSE FirstKeyRow(w).id])
    /\ UNCHANGED <<dbVars, unlocked>>

\* lines 411-413, 416-422, 426-428: the row is deleted, updated or inserted
PW_Write(p) ==
    /\ pc[p] = "pw_write"
    /\ LET l == loc[p] IN
       IF l.password = Null
       THEN /\ weekKeys' = {r \in weekKeys : r.id # l.row}
            /\ nextKeyId' = nextKeyId
            /\ Finish(p, "password_cleared")
       ELSE IF l.row = Null
       THEN /\ weekKeys' = weekKeys \cup
                 {[id |-> nextKeyId, week |-> l.week, results_password |-> l.password]}
            /\ nextKeyId' = nextKeyId + 1
            /\ Finish(p, "password_set")
       ELSE IF l.row \in {r.id : r \in weekKeys}
       THEN /\ weekKeys' = {IF r.id = l.row
                            THEN [r EXCEPT !.results_password = l.password]
                            ELSE r : r \in weekKeys}
            /\ nextKeyId' = nextKeyId
            /\ Finish(p, "password_set")
       ELSE /\ UNCHANGED <<weekKeys, nextKeyId>>
            /\ Finish(p, "error")
    /\ UNCHANGED <<players, matches, nextId, attendance, nextAttId, unlocked>>

\* lines 432-437: "Unlock week" compares the attempt with the stored password
Unlock(p, w, attempt) ==
    /\ pc[p] = "idle"
    /\ week_password(w) # Null
    /\ w \notin unlocked[p]
    /\ unlocked' = [unlocked EXCEPT
                      ![p] = IF attempt = week_password(w) THEN @ \cup {w} ELSE @]
    /\ Finish(p, IF attempt = week_password(w) THEN "unlocked" ELSE "incorrect")
    /\ UNCHANGED dbVars

\* ------------------------------------------------------------ the system
\* players added with starting ratings 1000.0, 1100.0, ...
StartRating(i) == DefaultRating + 100 * Unit * (i - 1)

InitSessions ==
    /\ unlocked = [p \in Procs |-> {}]
    /\ pc = [p \in Procs |-> "idle"]
    /\ loc = [p \in Procs |-> NoLoc]
    /\ msg = NoMsg

Init ==
    /\ players = [i \in PlayerIds |-> NewPlayer(StartRating(i), TRUE)]
    /\ matches = <<>>
    /\ nextId = 1
    /\ attendance = {}
    /\ nextAttId = 1
    /\ weekKeys = {}
    /\ nextKeyId = 1
    /\ InitSessions

\* what the administrator types: pairs, a BYE, three ids, a duplicate, a bad
\* token, no id at all, and the id NumPlayers
ManualInputs ==
    {<<1, 2>>, <<3, ByeTok>>, <<3, 1, 2>>, <<1, 1>>, <<BadTok, 2>>, <<ByeTok>>,
     <<2, NumPlayers>>}

\* one script run of the Enter Results page, factions chosen from F
ResultSteps(p, F) ==
    \/ \E w \in Weeks : SR_Gate(p, w)
    \/ SR_List(p)
    \/ SR_Get(p)
    \/ SR_GetA(p)
    \/ SR_GetB(p)
    \/ \E r \in Results, k \in KFactors, af, bf \in F : SR_Commit(p, r, k, af, bf)

\* one script run of the Ad-Hoc Match page, while match ids up to cap are free
AdhocSteps(p, F, cap) ==
    \/ \E w \in Weeks, a, b \in DOMAIN players : AH_GetA(p, w, a, b)
    \/ AH_GetB(p)
    \/ \E af, bf \in F : nextId <= cap /\ AH_Insert(p, af, bf)
    \/ AH_ReloadA(p)
    \/ AH_ReloadB(p)
    \/ \E r \in Results, k \in KFactors : AH_Commit(p, r, k)

GenerateSteps(p, W) ==
    \/ \E w \in W : G_Check(p, w)
    \/ G_Att(p)
    \/ G_Players(p)
    \/ G_Past(p)
    \/ nextId <= MaxMatchId /\ G_Insert(p)

ResetSteps(p, W) ==
    \/ \E w \in W, ir \in BOOLEAN : RS_Read(p, w, ir)
    \/ RS_Commit(p)

ManualSteps(p) ==
    \/ \E w \in Weeks, t \in ManualInputs, c \in BOOLEAN : MP_Start(p, w, t, c)
    \/ MP_Clear(p)
    \/ nextId <= MaxMatchId /\ MP_Insert(p)

AdminSteps(p) ==
    \/ \E i \in PlayerIds : Archive(p, i)
    \/ \E i \in PlayerIds : Restore(p, i)
    \/ \E w \in Weeks, sel \in SUBSET PlayerIds : SA_Read(p, w, sel)
    \/ /\ pc[p] = "sa_commit"
       /\ nextAttId + Cardinality(loc[p].sel) <= MaxAttId + 1
       /\ SA_Commit(p)
    \/ \E w \in Weeks, pw \in Passwords \cup {Null} : PW_Read(p, w, pw)
    \/ nextKeyId <= MaxKeyId /\ PW_Write(p)
    \/ \E w \in Weeks, pw \in Passwords : Unlock(p, w, pw)

\* every page, every session an administrator
NextSystem ==
    \E p \in Procs :
        \/ ResultSteps(p, Factions)
        \/ AdhocSteps(p, Factions, MaxMatchId)
        \/ GenerateSteps(p, Weeks)
        \/ ResetSteps(p, Weeks)
        \/ ManualSteps(p)
        \/ AdminSteps(p)

SpecSystem == Init /\ [][NextSystem]_vars

\* ------------------------------------------- recording results of a round
\* the round generated for week 1 with nobody marked present
RoundMatches == Insert(Insert(<<>>, 1, NewMatch(1, 3, 2)), 2, NewMatch(1, 1, Null))

InitRound ==
    /\ players = [i \in 1..3 |-> NewPlayer(StartRating(i), TRUE)]
    /\ matches = RoundMatches
    /\ nextId = 3
    /\ attendance = {}
    /\ nextAttId = 1
    /\ weekKeys = {}
    /\ nextKeyId = 1
    /\ InitSessions

\* the sessions submit results; session 1, the administrator (lines 486, 596,
\* 776: is_admin), also resets the week
Next ==
    \E p \in Procs :
        \/ ResultSteps(p, Factions)
        \/ p = 1 /\ ResetSteps(p, {1})

Spec == InitRound /\ [][Next]_vars

\* ---------------------------------------- ad-hoc matches and their results
InitTwo ==
    /\ players = [i \in 1..2 |-> NewPlayer(StartRating(i), TRUE)]
    /\ matches = <<>>
    /\ nextId = 1
    /\ attendance = {}
    /\ nextAttId = 1
    /\ weekKeys = {}
    /\ nextKeyId = 1
    /\ InitSessions

\* the sessions submit results; session 1, the administrator, also saves
\* ad-hoc matches and resets the week
NextAdhoc ==
    \E p \in Procs :
        \/ ResultSteps(p, {Null})
        \/ p = 1 /\ AdhocSteps(p, {Null}, MaxAdhoc)
        \/ p = 1 /\ ResetSteps(p, {1})

SpecAdhoc == InitTwo /\ [][NextAdhoc]_vars

\* ------------------------------------- two administrators generate a round
\* --------------------------------------------------- manual pairing editor
\* both sessions are administrators applying manual pairings to the round
NextManual == \E p \in Procs : ManualSteps(p)

SpecManual == InitRound /\ [][NextManual]_vars

\* ------------------------------------------------------------- week lock
\* the password handlers of the Pairings page; a new row while ids are left
KeySteps(p, W) ==
    \/ \E w \in W, pw \in Passwords \cup {Null} : PW_Read(p, w, pw)
    \/ /\ pc[p] = "pw_write"
       /\ (loc[p].password # Null /\ loc[p].row = Null) => nextKeyId <= MaxKeyId
       /\ PW_Write(p)

\* one pending match in week 1, none in week 2, no password
InitLock ==
    /\ players = [i \in 1..2 |-> NewPlayer(StartRating(i), TRUE)]
    /\ matches = Insert(<<>>, 1, NewMatch(1, 2, 1))
    /\ nextId = 2
    /\ attendance = {}
    /\ nextAttId = 1
    /\ weekKeys = {}
    /\ nextKeyId = 1
    /\ InitSessions

\* both sessions unlock and submit results; session 1, the administrator,
\* also sets and clears the password of week 1
NextLock ==
    \E p \in Procs :
        \/ ResultSteps(p, {Null})
        \/ \E w \in Weeks, pw \in Passwords : Unlock(p, w, pw)
        \/ p = 1 /\ KeySteps(p, {1})

SpecLock == InitLock /\ [][NextLock]_vars

\* both sessions are administrators setting and clearing week passwords
NextKeys == \E p \in Procs : KeySteps(p, Weeks)

SpecKeys == InitLock /\ [][NextKeys]_vars

\* --------------------------------------------------------------- attendance
\* the attendance buttons of the Pairings page, while row ids are left
AttSteps(p, W) ==
    \/ \E w \in W, sel \in SUBSET PlayerIds : SA_Read(p, w, sel)
    \/ /\ pc[p] = "sa_commit"
       /\ nextAttId + Cardinality(loc[p].sel) <= MaxAttId + 1
       /\ SA_Commit(p)

\* both sessions are administrators saving attendance
NextAtt == \E p \in Procs : AttSteps(p, Weeks)

SpecAtt == InitLock /\ [][NextAtt]_vars

\* ------------------------------------------------------------ delete player
DeleteSteps(p) ==
    \/ \E id \in PlayerIds, hard \in BOOLEAN : DP_ReadM(p, id, hard)
    \/ DP_ReadA(p)
    \/ DP_Cascade(p)
    \/ DP_Get(p)
    \/ DP_Commit(p)

\* players 1 and 2 have met in week 1, player 3 has no match
InitDelete ==
    /\ players = [i \in 1..3 |-> NewPlayer(StartRating(i), TRUE)]
    /\ matches = Insert(<<>>, 1, NewMatch(1, 2, 1))
    /\ nextId = 2
    /\ attendance = {}
    /\ nextAttId = 1
    /\ weekKeys = {}
    /\ nextKeyId = 1
    /\ InitSessions

\* both sessions are administrators deleting players and saving attendance
NextDelete == \E p \in Procs : DeleteSteps(p) \/ AttSteps(p, {1})

SpecDelete == InitDelete /\ [][NextDelete]_vars

\* ------------------------------------------------------ ledger derivations
\* a ledger row of week w: pending, or reported at the starting ratings
LedgerRow(w, a, b, result) ==
    IF result = "pending" THEN NewMatch(w, a, b)
    ELSE IF b = Null THEN ByeRow(NewMatch(w, a, b), StartRating(a), Null)
    ELSE ResultRow(NewMatch(w, a, b), StartRating(a), StartRating(b), result,
                   KCompetitive, Null, Null)

\* the sides and result a row can have: BYEs pending or won, two-sided with any result
LedgerKinds ==
    {<<a, Null, r>> : a \in 1..3, r \in {"pending", "a_win"}} \cup
    {<<pr[1], pr[2], r>> :
        pr \in {q \in (1..3) \X (1..3) : q[1] # q[2]}, r \in Results \cup {"pending"}}

\* ledgers of up to MaxHistory rows, weeks alternating
InitLedger ==
    /\ players = [i \in 1..3 |-> NewPlayer(StartRating(i), TRUE)]
    /\ \E n \in 0..MaxHistory : \E ks \in [1..n -> LedgerKinds] :
          /\ matches = [k \in 1..n |->
                          LedgerRow(1 + (k % NumWeeks), ks[k][1], ks[k][2], ks[k][3])]
          /\ nextId = n + 1
    /\ attendance = {}
    /\ nextAttId = 1
    /\ weekKeys = {}
    /\ nextKeyId = 1
    /\ InitSessions

\* session 1 shows the leaderboard and resets weeks
NextLedger ==
    \/ \E sa \in BOOLEAN : LB_Render(1, sa)
    \/ LB_Shown(1)
    \/ ResetSteps(1, Weeks)

SpecLedger == InitLedger /\ [][NextLedger]_vars

\* session 1 generates pairings over a ledger, by the handler or by a direct
\* call, and resets weeks
NextPast ==
    \/ GenerateSteps(1, Weeks)
    \/ \E w \in Weeks : G_Call(1, w, FALSE, {})
    \/ ResetSteps(1, Weeks)

SpecPast == InitLedger /\ [][NextPast]_vars

\* ------------------------------------------------------ faction statistics
FactionNames == 1..NumFactions

\* a reported row of week 1 with the factions played
FactionRow(a, b, af, bf) ==
    IF b = Null THEN ByeRow(NewMatch(1, a, b), StartRating(a), af)
    ELSE ResultRow(NewMatch(1, a, b), StartRating(a), StartRating(b), "a_win",
                   KCompetitive, af, bf)

\* players 1 and 2 meet either way round, or player 1 has a BYE
FactionKinds ==
    {<<1, Null, af, Null>> : af \in FactionNames \cup {Null}} \cup
    {<<pr[1], pr[2], af, bf>> : pr \in {<<1, 2>>, <<2, 1>>},
                               af \in FactionNames \cup {Null},
                               bf \in FactionNames \cup {Null}}

\* ledgers of up to MaxHistory rows; player 1 has any default faction
InitFaction ==
    /\ \E d \in FactionNames \cup {Null} :
          players = [i \in 1..2 |->
                       [NewPlayer(StartRating(i), TRUE) EXCEPT
                           !.faction = IF i = 1 THEN d ELSE Null]]
    /\ \E n \in 0..MaxHistory : \E ks \in [1..n -> FactionKinds] :
          /\ matches = [k \in 1..n |-> FactionRow(ks[k][1], ks[k][2], ks[k][3], ks[k][4])]
          /\ nextId = n + 1
    /\ attendance = {}
    /\ nextAttId = 1
    /\ weekKeys = {}
    /\ nextKeyId = 1
    /\ InitSessions

\* session 1 opens the result forms
NextFaction ==
    \/ MF_Prefs(1)
    \/ MF_Shown(1)

SpecFaction == InitFaction /\ [][NextFaction]_vars

\* -------------------------------------------------------------- rating model
RatingGrid == {DefaultRating + GridStep * d : d \in (0 - GridHalf)..GridHalf}

\* players 1 and 2 with any two ratings of the grid and one pending match
InitElo ==
    /\ \E ra, rb \in RatingGrid :
          players = [i \in 1..2 |-> NewPlayer(IF i = 1 THEN ra ELSE rb, TRUE)]
    /\ matches = Insert(<<>>, 1, NewMatch(1, 1, 2))
    /\ nextId = 2
    /\ attendance = {}
    /\ nextAttId = 1
    /\ weekKeys = {}
    /\ nextKeyId = 1
    /\ InitSessions

\* session 1 submits the result of the match
NextElo == ResultSteps(1, {Null})

SpecElo == InitElo /\ [][NextElo]_vars

InitThree ==
    /\ players = [i \in 1..3 |-> NewPlayer(StartRating(i), TRUE)]
    /\ matches = <<>>
    /\ nextId = 1
    /\ attendance = {}
    /\ nextAttId = 1
    /\ weekKeys = {}
    /\ nextKeyId = 1
    /\ InitSessions

\* both sessions are administrators and generate; session 1 also submits
\* results and resets the week
NextGen ==
    \E p \in Procs :
        \/ GenerateSteps(p, {1})
        \/ p = 1 /\ ResultSteps(p, {Null})
        \/ p = 1 /\ ResetSteps(p, {1})

SpecGen == InitThree /\ [][NextGen]_vars

\* both sessions draw pages on days of the window
NextWeek ==
    \E p \in Procs :
        \/ \E today \in Days : WK_Render(p, today)
        \/ WK_Shown(p)

SpecWeek == InitThree /\ [][NextWeek]_vars

\* ------------------------------- two pending matches that share a player
\* match 1 of week 1: 1 against 2; match 2 of week 2: 3 against 1
InitShared ==
    /\ players = [i \in 1..3 |-> NewPlayer(StartRating(i), TRUE)]
    /\ matches = Insert(Insert(<<>>, 1, NewMatch(1, 1, 2)), 2, NewMatch(2, 3, 1))
    /\ nextId = 3
    /\ attendance = {}
    /\ nextAttId = 1
    /\ weekKeys = {}
    /\ nextKeyId = 1
    /\ InitSessions

\* session p submits results for week p only, so no match is submitted twice
\* at once
NextShared ==
    \E p \in Procs :
        \/ SR_Gate(p, p)
        \/ SR_List(p)
        \/ SR_Get(p)
        \/ SR_GetA(p)
        \/ SR_GetB(p)
        \/ \E r \in Results, k \in KFactors : SR_Commit(p, r, k, Null, Null)

SpecShared == InitShared /\ [][NextShared]_vars

\* ------------------------------------- manual pairings over a played week
\* week 1 holds a reported match of 3 against 2 and a pending BYE of 1
InitApply ==
    /\ players = [i \in 1..3 |-> NewPlayer(StartRating(i), TRUE)]
    /\ matches = Insert(Insert(<<>>, 1, LedgerRow(1, 3, 2, "a_win")), 2, NewMatch(1, 1, Null))
    /\ nextId = 3
    /\ attendance = {}
    /\ nextAttId = 1
    /\ weekKeys = {}
    /\ nextKeyId = 1
    /\ InitSessions

\* the texts of the editor: "BYE" absent, last, in the middle, first
ApplyInputs ==
    {<<1, 2>>, <<3, ByeTok>>, <<2, ByeTok, 1, 3>>, <<ByeTok, 1, 2>>, <<4, 3, 2, 1>>,
     <<1, 1>>}

\* both sessions are administrators and apply manual pairings
NextApply ==
    \E p \in Procs :
        \/ \E w \in Weeks, t \in ApplyInputs, c \in BOOLEAN : MP_Start(p, w, t, c)
        \/ MP_Clear(p)
        \/ nextId <= MaxMatchId /\ MP_Insert(p)

SpecApply == InitApply /\ [][NextApply]_vars

\* ------------------------------------------ resets over two played weeks
\* each week holds a reported and a pending match; player 1 is marked present
\* for week 1 and week 2 has a password
InitReset ==
    /\ players = [i \in 1..3 |-> NewPlayer(StartRating(i), TRUE)]
    /\ matches = Insert(Insert(Insert(Insert(<<>>,
                     1, LedgerRow(1, 3, 2, "a_win")), 2, NewMatch(1, 1, Null)),
                     3, NewMatch(2, 1, 2)), 4, LedgerRow(2, 3, Null, "a_win"))
    /\ nextId = 5
    /\ attendance = {[id |-> 1, week |-> 1, player_id |-> 1]}
    /\ nextAttId = 2
    /\ weekKeys = {[id |-> 1, week |-> 2, results_password |-> 1]}
    /\ nextKeyId = 2
    /\ InitSessions

DeleteSelectedSteps(p) ==
    \/ \E w \in Weeks, allow \in BOOLEAN, sel \in SUBSET MatchIds : DS_List(p, w, allow, sel)
    \/ DS_Get(p)
    \/ DS_Commit(p)

\* both sessions are administrators, reset weeks and delete selected
\* pairings; session 2 also submits results
NextReset ==
    \E p \in Procs :
        \/ ResetSteps(p, Weeks)
        \/ DeleteSelectedSteps(p)
        \/ p = 2 /\ ResultSteps(p, {Null})

SpecReset == InitReset /\ [][NextReset]_vars

\* ------------------------------------------ every way a match is created
\* both sessions are administrators: session 1 generates week 1 and applies
\* manual pairings to week 2, session 2 saves ad-hoc matches of week 2 while
\* ids up to MaxAdhoc are free
NextCreate ==
    \/ GenerateSteps(1, {1})
    \/ \E t \in ManualInputs, c \in BOOLEAN : MP_Start(1, 2, t, c)
    \/ MP_Clear(1)
    \/ nextId <= MaxMatchId /\ MP_Insert(1)
    \/ \E a, b \in DOMAIN players : AH_GetA(2, 2, a, b)
    \/ AH_GetB(2)
    \/ nextId <= MaxAdhoc /\ AH_Insert(2, Null, Null)
    \/ AH_ReloadA(2)
    \/ AH_ReloadB(2)
    \/ \E r \in Results : AH_Commit(2, r, KCompetitive)

SpecCreate == InitThree /\ [][NextCreate]_vars

\* --------------------------------- one generation from any state of a league
\* ratings: a ladder with player 1 on top, all equal, or alternating
RatingProfiles ==
    { [i \in PlayerIds |-> DefaultRating + 100 * Unit * (NumPlayers - i)],
      [i \in PlayerIds |-> DefaultRating],
      [i \in PlayerIds |-> DefaultRating + 100 * Unit * (i % 2)] }

\* nobody or one player archived
ActiveProfiles ==
    {[i \in PlayerIds |-> TRUE]} \cup
    {[i \in PlayerIds |-> i # j] : j \in PlayerIds}

AllPairs == {pr \in PlayerIds \X PlayerIds : pr[1] > pr[2]}
Histories == {H \in SUBSET AllPairs : Cardinality(H) <= MaxHistory}
PairRank(pr) == pr[1] * (NumPlayers + 1) + pr[2]

\* the pairs of H as pending rows of week 2, the higher id as player A
HistoryRows(H) ==
    [k \in 1..Cardinality(H) |->
        LET pr == CHOOSE q \in H :
                    Cardinality({r \in H : PairRank(r) < PairRank(q)}) = k - 1
        IN NewMatch(2, pr[1], pr[2])]

\* the ids of S marked present for week 1
AttendanceRows(S) ==
    {[id |-> 1 + Cardinality({j \in S : j < i}), week |-> 1, player_id |-> i] : i \in S}

InitPairing ==
    /\ \E r \in RatingProfiles, a \in ActiveProfiles :
          players = [i \in PlayerIds |-> NewPlayer(r[i], a[i])]
    /\ \E H \in Histories :
          /\ matches = HistoryRows(H)
          /\ nextId = Cardinality(H) + 1
    /\ \E S \in SUBSET PlayerIds :
          /\ attendance = AttendanceRows(S)
          /\ nextAttId = Cardinality(S) + 1
    /\ weekKeys = {}
    /\ nextKeyId = 1
    /\ InitSessions

\* session 1 generates once for week 1: through the handler, or by a call of
\* generate_weekly_pairings restricted to nobody or to everybody
NextPairing ==
    \/ msg = NoMsg /\ G_Check(1, 1)
    \/ G_Att(1)
    \/ \E R \in {{}, PlayerIds} : msg = NoMsg /\ G_Call(1, 1, TRUE, R)
    \/ G_Players(1)
    \/ G_Past(1)
    \/ G_Insert(1)

SpecPairing == InitPairing /\ [][NextPairing]_vars

\* =================================================================== claims
BothIds == MatchIds \cap DOMAIN matches'
SidesOf(m) == {m.player_a_id, m.player_b_id} \ {Null}
Reported(id) == matches[id].result # "pending"

\* C1: a submission that finds its match missing or no longer pending is
\* rejected as already recorded and leaves matches and ratings as they are,
\* and a result that has left "pending" never becomes "pending" again.
C1_RecordedAtMostOnce ==
    [][ /\ \A p \in Procs :
              ( /\ pc[p] = "sr_get"
                /\ pc'[p] # "sr_get"
                /\ \/ loc[p].mid \notin MatchIds
                   \/ matches[loc[p].mid].result # "pending" )
              => /\ msg' = <<p, "already_recorded">>
                 /\ pc'[p] = "idle"
                 /\ matches' = matches
                 /\ players' = players
        /\ \A id \in BothIds : Reported(id) => matches'[id].result # "pending"
      ]_vars

\* C1 witness: a retry for a recorded match of the untouched round was rejected
C1_Witness ==
    /\ msg = <<2, "already_recorded">>
    /\ MatchIds = {1, 2}
    /\ \A id \in MatchIds : Reported(id)

\* C2: a session commits a result only for a match that is pending when it
\* commits; of two concurrent submissions the second aborts.
C2_SecondWriterAborts ==
    [][ \A p \in Procs :
          ( /\ pc[p] = "sr_commit"
            /\ pc'[p] = "idle"
            /\ loc[p].mid \in BothIds
            /\ msg' # <<p, "error">> )
          => matches[loc[p].mid].result = "pending"
      ]_vars

Frozen(m) ==
    <<m.result, m.a_rating_before, m.b_rating_before, m.a_rating_after,
      m.b_rating_after, m.a_faction, m.b_faction>>

\* C4: once the result of a match is not "pending", its result, its four
\* ratings and its two factions are the same in every later state that still
\* holds the match.
C4_ReportedIsFrozen ==
    [][ \A id \in BothIds : Reported(id) => Frozen(matches'[id]) = Frozen(matches[id])
      ]_vars

\* C5: generation goes on only for a week without any match, pending or
\* reported, and a refused generation leaves the store as it is.
C5_GenerationRefused ==
    [][ \A p \in Procs :
          /\ (pc[p] = "idle" /\ pc'[p] = "g_att") => WeekMatches(loc'[p].week) = {}
          /\ msg' = <<p, "pairings_exist">> => UNCHANGED dbVars
      ]_vars

\* C5 witness: generation was refused for a week whose pending matches a reset
\* removed and whose only match left is reported
C5_Witness ==
    /\ msg = <<1, "pairings_exist">>
    /\ nextId = 3
    /\ MatchIds = {1}
    /\ Reported(1)

\* C6: when no generation is under way, no player is in two matches of a week.
C6_NoDoublePairing ==
    (\A p \in Procs : pc[p] = "idle")
    => \A w \in Weeks, i \in DOMAIN players :
          Cardinality({id \in WeekMatches(w) : i \in SidesOf(matches[id])}) <= 1

\* the rows of week w after the step
RowsAfter(w) == {id \in DOMAIN matches' : matches'[id].week = w}

\* C7: a finished generation over a pool of n ids has created floor(n/2)
\* two-sided matches and one bye exactly when n is odd, all pending, and every
\* id of the pool is in exactly one of them; an empty pool creates nothing.
C7_EveryoneOnce ==
    [][ /\ (pc[1] = "g_ins" /\ pc'[1] = "idle") =>
             LET ids  == loc[1].ids
                 n    == Len(ids)
                 rows == RowsAfter(loc[1].week)
             IN /\ Cardinality({id \in rows : matches'[id].player_b_id # Null}) = n \div 2
                /\ Cardinality({id \in rows : matches'[id].player_b_id = Null}) = n % 2
                /\ \A id \in rows :
                      /\ matches'[id].result = "pending"
                      /\ matches'[id].player_a_id # matches'[id].player_b_id
                      /\ SidesOf(matches'[id]) \subseteq SeqSet(ids)
                /\ \A i \in SeqSet(ids) :
                      Cardinality({id \in rows : i \in SidesOf(matches'[id])}) = 1
        /\ (pc[1] = "g_players" /\ pc'[1] = "idle") => matches' = matches
      ]_vars

\* C7 witness: three players with a history were paired: one match and one bye
C7_Witness ==
    /\ msg = <<1, "created">>
    /\ Cardinality(WeekMatches(1)) = 2
    /\ \E id \in WeekMatches(1) : matches[id].player_b_id = Null
    /\ WeekMatches(2) # {}

\* a and c have met: some two-sided row of the store holds both
Played(a, c) ==
    \E id \in MatchIds :
        /\ matches[id].player_b_id # Null
        /\ {matches[id].player_a_id, matches[id].player_b_id} = {a, c}

\* the ids of the first k pairings of P
Consumed(P, k) == UNION {{P[j][1], P[j][2]} : j \in 1..k} \ {Null}
Position(ids, x) == CHOOSE i \in DOMAIN ids : ids[i] = x
Least(S) == CHOOSE i \in S : \A j \in S : i <= j

\* P is the outcome of the pass over ids: each first side is the first id not
\* consumed, its opponent the first later unconsumed id it has not met, or else
\* the first later unconsumed id, or else nobody
GreedyOutcome(ids, P) ==
    /\ Consumed(P, Len(P)) = SeqSet(ids)
    /\ \A k \in DOMAIN P :
          LET used  == Consumed(P, k - 1)
              free  == {i \in DOMAIN ids : ids[i] \notin used}
              A     == P[k][1]
              later == {i \in free : i > Position(ids, A)}
              fresh == {i \in later : ~Played(A, ids[i])}
          IN /\ free # {}
             /\ A = ids[Least(free)]
             /\ P[k][2] = IF fresh # {} THEN ids[Least(fresh)]
                          ELSE IF later # {} THEN ids[Least(later)]
                          ELSE Null

\* C8: the pairings the pass has computed are the greedy outcome: first fresh
\* later opponent, else first later opponent; ratings 1>2>3>4 give (1,2),(3,4)
\* without history and (1,3),(2,4) when 1 and 2 have met.
C8_GreedyFirstFresh ==
    (pc[1] = "g_ins" /\ loc[1].done = 0) =>
        /\ GreedyOutcome(loc[1].ids, loc[1].pairings)
        /\ loc[1].ids = <<1, 2, 3, 4>> =>
              /\ (\A id \in MatchIds : matches[id].player_b_id = Null)
                    => loc[1].pairings = <<<<1, 2>>, <<3, 4>>>>
              /\ (\A a, c \in PlayerIds : a # c => (Played(a, c) <=> {a, c} = {1, 2}))
                    => loc[1].pairings = <<<<1, 3>>, <<2, 4>>>>

\* C8 witness: 1>2>3>4 where 1 and 2 have met: 1 skips 2 and takes 3
C8_Witness ==
    /\ pc[1] = "g_ins"
    /\ loc[1].done = 0
    /\ loc[1].ids = <<1, 2, 3, 4>>
    /\ \A a, c \in PlayerIds : a # c => (Played(a, c) <=> {a, c} = {1, 2})
    /\ loc[1].pairings = <<<<1, 3>>, <<2, 4>>>>

\* the pool the handler is to pair for week w
AttendancePool(w) ==
    LET present == {i \in DOMAIN players : \E r \in attendance : r.week = w /\ r.player_id = i}
        active  == {i \in DOMAIN players : players[i].active}
    IN IF \E r \in attendance : r.week = w THEN active \cap present ELSE active

\* C9: the handler pairs the active players marked present, or all active
\* players when nobody is marked present, and no match of the generated week
\* holds an archived player.
C9_PoolIsActivePresent ==
    [][ /\ (pc[1] = "g_players" /\ loc[1].h = "handler" /\ pc'[1] = "g_past")
              => SeqSet(loc'[1].ids) = AttendancePool(loc[1].week)
        /\ (pc[1] = "g_players" /\ loc[1].h = "handler" /\ pc'[1] = "idle")
              => AttendancePool(loc[1].week) = {}
        /\ \A id \in RowsAfter(1) : \A i \in SidesOf(matches'[id]) : players'[i].active
      ]_vars

\* C9 witness: the handler has created a match while an archived player is
\* marked present
C9_Witness ==
    /\ pc[1] = "g_ins"
    /\ loc[1].h = "handler"
    /\ loc[1].done = 1
    /\ \E i \in PresentIds(1) : ~players[i].active
    /\ \E i \in PresentIds(1) : players[i].active

\* C10: a call of generate_weekly_pairings with restrict_to an empty set
\* creates no match row.
C10_EmptyPoolCreatesNothing ==
    [][ ( /\ pc[1] \in {"g_players", "g_past", "g_ins"}
          /\ loc[1].h = "call"
          /\ loc[1].hasRestrict
          /\ loc[1].restrict = {} )
        => matches' = matches
      ]_vars

\* C11: a commit that resolves a BYE writes a_win, no K-factor, no B-side
\* ratings and a_rating_after = a_rating_before, changes no rating, and when
\* the BYE was pending it adds exactly one win to the recipient's record.
C11_ByeResolved ==
    [][ \A p \in Procs :
          ( /\ pc[p] = "sr_commit"
            /\ loc[p].mid \in BothIds
            /\ matches[loc[p].mid].player_b_id = Null
            /\ matches'[loc[p].mid] # matches[loc[p].mid] )
          => LET old == matches[loc[p].mid]
                 new == matches'[loc[p].mid]
                 a   == old.player_a_id
             IN /\ new.result = "a_win"
                /\ new.k_factor_used = Null
                /\ new.b_rating_before = Null
                /\ new.b_rating_after = Null
                /\ new.a_rating_after = new.a_rating_before
                /\ new.a_rating_before = players[a].rating
                /\ players' = players
                /\ old.result = "pending" =>
                      /\ player_record(matches', a)[1] = player_record(matches, a)[1] + 1
                      /\ player_record(matches', a)[2] = player_record(matches, a)[2]
                      /\ player_record(matches', a)[3] = player_record(matches, a)[3]
      ]_vars

\* C11 witness: the BYE of player 1 is resolved and counts as the one win
C11_Witness ==
    /\ msg = <<1, "bye_recorded">>
    /\ 2 \in MatchIds
    /\ matches[2].player_b_id = Null
    /\ matches[2].result = "a_win"
    /\ matches[2].a_rating_after = players[1].rating
    /\ player_record(matches, 1) = <<1, 0, 0>>

\* C12: no BYE row of the store is pending.
C12_NoPendingBye ==
    \A id \in MatchIds : matches[id].player_b_id = Null => matches[id].result # "pending"

\* C13: manual input with a bad token, a duplicate id or no id is answered
\* with a validation error and leaves the store as it is; the handler goes on
\* to clear or insert only with ids that are numbers, distinct and not empty.
C13_InvalidManualInput ==
    [][ \A p \in Procs :
          /\ msg' = <<p, "invalid_input">> => UNCHANGED dbVars
          /\ (pc[p] = "idle" /\ pc'[p] \in {"mp_clear", "mp_ins"}) =>
                LET ids == loc'[p].ids
                IN /\ \A i \in DOMAIN ids : ids[i] \in Nat /\ ids[i] > 0
                   /\ ids # <<>>
                   /\ \A i, j \in DOMAIN ids : i # j => ids[i] # ids[j]
      ]_vars

\* C13 witness: an input was rejected while the round's pending matches stay
C13_Witness ==
    /\ msg = <<1, "invalid_input">>
    /\ matches = RoundMatches
    /\ nextId = 3

\* C14: every match refers to existing players.
C14_PlayersExist ==
    \A id \in MatchIds :
        /\ matches[id].player_a_id \in DOMAIN players
        /\ matches[id].player_b_id # Null => matches[id].player_b_id \in DOMAIN players

\* C15: a session commits a result for a match of a week only if, at that
\* moment, the week has no password or the session has unlocked the week.
C15_LockedWeekTakesNoResult ==
    [][ \A p \in Procs :
          ( /\ pc[p] = "sr_commit"
            /\ loc[p].mid \in BothIds
            /\ matches'[loc[p].mid] # matches[loc[p].mid] )
          => LET w == matches[loc[p].mid].week
             IN week_password(w) = Null \/ w \in unlocked[p]
      ]_vars

\* the password stored for week w after the step
PasswordAfter(w) ==
    LET rows == {r \in weekKeys' : r.week = w}
    IN IF rows = {} THEN Null
       ELSE (CHOOSE r \in rows : \A q \in rows : r.id <= q.id).results_password

\* C16: a session becomes unlocked for a week only by a successful attempt
\* against a stored password, and when the password of a week is replaced by
\* a different one no session stays unlocked for that week.
C16_UnlockDiesWithPassword ==
    [][ \A p \in Procs, w \in Weeks :
          /\ (w \notin unlocked[p] /\ w \in unlocked'[p])
                => msg' = <<p, "unlocked">> /\ week_password(w) # Null
          /\ ( /\ week_password(w) # Null
               /\ PasswordAfter(w) # Null
               /\ PasswordAfter(w) # week_password(w) )
                => w \notin unlocked'[p]
      ]_vars

\* the row a password handler read is still the first row of its week
ReadStillFirst(p) ==
    LET w == loc[p].week
    IN loc[p].row = (IF WeekRows(w) = {} THEN Null ELSE FirstKeyRow(w).id)

\* C17: a set or clear that writes on the row it read leaves week_password
\* of its week equal to the password set, or none after a clear or an empty
\* password; it changes nothing when that is already so, and it leaves the
\* password of every other week alone.
C17_SetThenGet ==
    [][ \A p \in Procs :
          (pc[p] = "pw_write" /\ pc'[p] = "idle" /\ ReadStillFirst(p)) =>
             LET w == loc[p].week
             IN /\ PasswordAfter(w) = loc[p].password
                /\ week_password(w) = loc[p].password => weekKeys' = weekKeys
                /\ \A v \in Weeks \ {w} : PasswordAfter(v) = week_password(v)
      ]_vars

\* C18: the store holds at most one WeekKey row per week.
C18_OneKeyPerWeek ==
    \A w \in Weeks : Cardinality(WeekRows(w)) <= 1

\* the attendance rows of week w after the step
AttAfter(w) == {r \in attendance' : r.week = w}
AttNow(w) == {r \in attendance : r.week = w}

\* after the step week w holds exactly one row per player of S
ExactlyAfter(w, S) ==
    /\ {r.player_id : r \in AttAfter(w)} = S
    /\ Cardinality(AttAfter(w)) = Cardinality(S)

\* C19: a save that deletes the rows the week holds leaves exactly one row per
\* selected player for the week, whatever was stored; saving what is stored
\* changes no week's players; the rows of every other week are untouched.
C19_SaveReplaces ==
    [][ \A p \in Procs :
          ( /\ pc[p] = "sa_commit"
            /\ pc'[p] = "idle"
            /\ loc[p].rows = {r.id : r \in AttNow(loc[p].week)} )
          => LET w == loc[p].week
             IN /\ ExactlyAfter(w, loc[p].sel)
                /\ ( /\ {r.player_id : r \in AttNow(w)} = loc[p].sel
                     /\ Cardinality(AttNow(w)) = Cardinality(loc[p].sel) )
                   => {<<r.week, r.player_id>> : r \in attendance'}
                        = {<<r.week, r.player_id>> : r \in attendance}
                /\ \A v \in Weeks \ {w} : AttAfter(v) = AttNow(v)
      ]_vars

\* C19 witness: week 1 held player 1, then player 2 alone was saved for it
C19_Witness ==
    /\ msg = <<1, "attendance_saved">>
    /\ nextAttId = 3
    /\ attendance = {[id |-> 2, week |-> 1, player_id |-> 2]}

\* C20: after a save the week holds exactly one row per player the saver
\* selected, or, when another save ran meanwhile, exactly the players it held
\* before, one row each: never a union or mixture, never two rows of a player.
C20_LastWriterWins ==
    [][ \A p \in Procs :
          (pc[p] = "sa_commit" /\ pc'[p] = "idle")
          => LET w == loc[p].week
             IN \/ ExactlyAfter(w, loc[p].sel)
                \/ ExactlyAfter(w, {r.player_id : r \in AttNow(w)})
      ]_vars

\* the player rows, match rows and attendance rows that refer to player id
\* after the step
RefersAfter(id) ==
    \/ \E m \in DOMAIN matches' : id \in {matches'[m].player_a_id, matches'[m].player_b_id}
    \/ \E r \in attendance' : r.player_id = id

\* C21: a refused delete changes nothing and is refused only for a player
\* with related rows; after a delete that removes a player no match and no
\* attendance row refers to that player.
C21_DeleteLeavesNoReference ==
    [][ \A p \in Procs :
          /\ msg' = <<p, "delete_blocked">> =>
                /\ UNCHANGED dbVars
                /\ ~loc[p].hard
          /\ (pc[p] = "dp_commit" /\ pc'[p] = "idle" /\ players' # players)
                => ~RefersAfter(loc[p].id)
      ]_vars

\* the non-pending rows with player i
ReportedWith(i) ==
    {id \in MatchIds : /\ i \in {matches[id].player_a_id, matches[id].player_b_id}
                       /\ matches[id].result # "pending"}

\* the rows player i has won
WonBy(i) ==
    {id \in ReportedWith(i) :
        \/ matches[id].player_b_id = Null /\ matches[id].player_a_id = i
        \/ matches[id].player_b_id # Null /\ matches[id].result = "a_win"
              /\ matches[id].player_a_id = i
        \/ matches[id].player_b_id # Null /\ matches[id].result = "b_win"
              /\ matches[id].player_b_id = i}

DrawnBy(i) ==
    {id \in ReportedWith(i) :
        matches[id].player_b_id # Null /\ matches[id].result = "draw"}

\* C22: the record the leaderboard shows for a player is (rows won: resolved
\* BYEs as A and two-sided wins; two-sided draws; two-sided rows lost), and
\* the three add up to the number of non-pending rows with the player.
C22_RecordCounts ==
    pc[1] = "lb_shown" =>
        \A i \in DOMAIN loc[1].records :
            LET rec == loc[1].records[i]
            IN /\ rec[1] = Cardinality(WonBy(i))
               /\ rec[2] = Cardinality(DrawnBy(i))
               /\ rec[3] = Cardinality(ReportedWith(i) \ (WonBy(i) \cup DrawnBy(i)))
               /\ rec[1] + rec[2] + rec[3] = Cardinality(ReportedWith(i))

\* C22 witness: player 1 has a resolved BYE, a loss and a pending match
C22_Witness ==
    /\ pc[1] = "lb_shown"
    /\ loc[1].records[1] = <<1, 0, 1>>
    /\ Cardinality(MatchesOf(1)) = 3
    /\ \E id \in MatchesOf(1) : matches[id].player_b_id = Null

\* how often faction f stands on player i's own side of a row
OwnSideCount(i, f) ==
    Cardinality({id \in MatchIds : matches[id].player_a_id = i /\ matches[id].a_faction = f})
    + Cardinality({id \in MatchIds : matches[id].player_b_id = i /\ matches[id].b_faction = f})

\* C23: the most played faction shown for a player is none when no faction
\* stands on the player's own side of any row; otherwise it is a faction with
\* the highest own-side count, the lowest name among those; the player's
\* default faction plays no part.
C23_MostPlayed ==
    pc[1] = "mf_shown" =>
        \A i \in DOMAIN players :
            LET r == loc[1].prefs[i]
                played == {f \in FactionNames : OwnSideCount(i, f) > 0}
            IN IF played = {} THEN r = Null
               ELSE /\ r \in played
                    /\ \A g \in played : OwnSideCount(i, g) <= OwnSideCount(i, r)
                    /\ \A g \in played : OwnSideCount(i, g) = OwnSideCount(i, r) => r <= g

\* C23 witness: player 1 played factions 1 and 2 once each, one of them as
\* player B, and has default faction 2; faction 1 is shown
C23_Witness ==
    /\ pc[1] = "mf_shown"
    /\ players[1].faction = 2
    /\ OwnSideCount(1, 1) = 1
    /\ OwnSideCount(1, 2) = 1
    /\ \E id \in MatchIds : matches[id].player_b_id = 1 /\ matches[id].b_faction # Null
    /\ loc[1].prefs[1] = 1

C25_WinRaisesDrawKeeps ==
    [][ \A id \in BothIds :
          ( /\ matches[id].result = "pending"
            /\ matches'[id].result # "pending"
            /\ matches[id].player_b_id # Null )
          => LET a  == matches[id].player_a_id
                 b  == matches[id].player_b_id
                 ra == players[a].rating
                 rb == players[b].rating
             IN /\ ( /\ matches'[id].result = "a_win"
                     /\ matches'[id].k_factor_used = 40
                     /\ ra <= rb )
                   => players'[a].rating > ra /\ players'[b].rating < rb
                /\ (matches'[id].result = "draw" /\ ra = rb)
                   => players'[a].rating = ra /\ players'[b].rating = rb
      ]_vars

\* C25 witness: the lower rated A has won with K 40 and gained, B has lost
C25_Witness ==
    /\ msg = <<1, "saved">>
    /\ matches[1].result = "a_win"
    /\ matches[1].k_factor_used = 40
    /\ matches[1].a_rating_before < matches[1].b_rating_before
    /\ players[1].rating > matches[1].a_rating_before
    /\ players[2].rating < matches[1].b_rating_before

\* the sorted pairs of players that some two-sided row of the store holds
PairsInLedger ==
    {q \in PlayerIds \X PlayerIds : q[1] <= q[2] /\ Played(q[1], q[2])}

\* C26: the set fetch_past_pairs returns is exactly the unordered pairs of the
\* two-sided matches in the ledger at the time of the call, whatever their
\* side order, week and result (pending rows count); BYEs add nothing and a
\* deleted match's pair is gone unless another row holds it.
C26_PastPairsOfLedger ==
    [][ (pc[1] = "g_past" /\ pc'[1] = "g_ins") => loc'[1].past = PairsInLedger ]_vars

\* C26 witness: after a reset deleted row 2, the ledger holds a pending match
\* of 2 against 1 and a BYE, and the pairs read are just (1, 2)
C26_Witness ==
    /\ pc[1] = "g_ins"
    /\ loc[1].done = 0
    /\ nextId = 4
    /\ MatchIds = {1, 3}
    /\ matches[1].player_a_id = 2
    /\ matches[1].player_b_id = 1
    /\ matches[1].result = "pending"
    /\ matches[3].player_b_id = Null
    /\ loc[1].past = {<<1, 2>>}

\* the value of a digit character
DigVal(c) == (CHOOSE v \in 1..10 : Digit[v] = c) - 1

\* the ordinal of the date a DD/MM/YYYY string names
ParseUk(t) ==
    LET dd == DigVal(t[1]) * 10 + DigVal(t[2])
        m  == DigVal(t[4]) * 10 + DigVal(t[5])
        y  == DigVal(t[7]) * 1000 + DigVal(t[8]) * 100 + DigVal(t[9]) * 10 + DigVal(t[10])
    IN DaysBeforeYear(y) + DaysBeforeMonth(y, m) + dd

\* the Monday-to-Sunday week of a date, counted from day 1, a Monday
WeekOf(d) == (d - 1) \div 7

\* C27: the week id a page shows names a Wednesday at most 2 days after and at
\* most 4 days before today, in the same Monday-to-Sunday week; two pages drawn
\* on days of one week show the same id; the id of that Wednesday is the id.
C27_WednesdayOfWeek ==
    \A p \in Procs :
        pc[p] = "wk_shown" =>
            LET w == ParseUk(loc[p].week) IN
            /\ Len(loc[p].week) = 10
            /\ loc[p].week[3] = "/" /\ loc[p].week[6] = "/"
            /\ weekday(w) = 2
            /\ w - loc[p].today \in (0 - 4)..2
            /\ WeekOf(w) = WeekOf(loc[p].today)
            /\ week_id_wed(w) = loc[p].week
            /\ \A q \in Procs :
                  (pc[q] = "wk_shown" /\ WeekOf(loc[q].today) = WeekOf(loc[p].today))
                     => loc[q].week = loc[p].week

\* C27 witness: pages drawn on Monday 26/02/2024 and on Sunday 03/03/2024 both
\* show 28/02/2024, across the leap day
C27_Witness ==
    /\ pc[1] = "wk_shown"
    /\ pc[2] = "wk_shown"
    /\ weekday(loc[1].today) = 0
    /\ weekday(loc[2].today) = 6
    /\ loc[1].week = <<"2", "8", "/", "0", "2", "/", "2", "0", "2", "4">>
    /\ loc[2].week = loc[1].week
    /\ uk_date_str(loc[2].today) = <<"0", "3", "/", "0", "3", "/", "2", "0", "2", "4">>

\* what the reported two-sided match m added to the rating of player i
DeltaOf(m, i) ==
    IF m.player_b_id = Null \/ m.result = "pending" THEN 0
    ELSE (IF m.player_a_id = i THEN m.a_rating_after - m.a_rating_before ELSE 0)
       + (IF m.player_b_id = i THEN m.b_rating_after - m.b_rating_before ELSE 0)

RECURSIVE SumDeltas(_, _)
SumDeltas(ids, i) ==
    IF ids = {} THEN 0
    ELSE LET id == CHOOSE x \in ids : TRUE
         IN DeltaOf(matches[id], i) + SumDeltas(ids \ {id}, i)

\* C28: the step that records a two-sided match stores as a_rating_before the
\* rating A had just before the step and leaves A with a_rating_after; and with
\* no match deleted every player's rating is the starting rating plus the sum of
\* (after - before) over the reported matches of the player, also when two
\* matches sharing a player are recorded concurrently.
C28_NoLostUpdate ==
    /\ [][ \A id \in MatchIds :
             ( /\ matches[id].result = "pending"
               /\ matches'[id].result # "pending"
               /\ matches[id].player_b_id # Null )
             => /\ matches'[id].a_rating_before = players[matches[id].player_a_id].rating
                /\ players'[matches[id].player_a_id].rating = matches'[id].a_rating_after
         ]_vars
    /\ [](\A i \in DOMAIN players :
             players[i].rating = StartRating(i) + SumDeltas(MatchIds, i))

\* the sum of the ratings of the players in ps
RECURSIVE SumRatings(_, _)
SumRatings(ps, ids) ==
    IF ids = {} THEN 0
    ELSE LET i == CHOOSE x \in ids : TRUE
         IN ps[i].rating + SumRatings(ps, ids \ {i})

\* C29: the step that records a two-sided match moves the ratings of A and B
\* by opposite amounts (new_a + new_b = old_a + old_b), and no step that keeps
\* the set of players changes the sum of all ratings.
C29_RatingSumKept ==
    [][ /\ \A id \in MatchIds :
             ( /\ matches[id].result = "pending"
               /\ matches'[id].result # "pending"
               /\ matches[id].player_b_id # Null )
             => LET a == matches[id].player_a_id
                    b == matches[id].player_b_id
                IN players'[a].rating + players'[b].rating
                   = players[a].rating + players[b].rating
        /\ DOMAIN players' = DOMAIN players
             => SumRatings(players', DOMAIN players') = SumRatings(players, DOMAIN players)
      ]_vars

\* the positions of the tokens that are ids, and the k-th id of the text
IdPositions(T) == {i \in DOMAIN T : T[i] # ByeTok}
KthId(T, k) ==
    T[CHOOSE i \in IdPositions(T) : Cardinality({j \in IdPositions(T) : j <= i}) = k]

\* the pending matches of week w
PendingOf(w) == {id \in WeekMatches(w) : matches[id].result = "pending"}

ResetTargets(w, include_reported) ==
    IF include_reported THEN WeekMatches(w) ELSE PendingOf(w)

C32_NoSelfPairing ==
    \A id \in MatchIds :
        matches[id].player_b_id # Null =>
            matches[id].player_a_id # matches[id].player_b_id

\* C32 witness: the store holds a generated pairing of 3 against 2, a reported
\* ad-hoc match and a manual pairing with the highest id of the editor's texts
C32_Witness ==
    /\ \E id \in MatchIds : matches[id] = NewMatch(1, 3, 2)
    /\ \E id \in MatchIds :
          /\ matches[id].player_b_id # Null
          /\ matches[id].result # "pending"
    /\ \E id \in MatchIds :
          /\ matches[id].player_b_id = NumPlayers
          /\ matches[id].result = "pending"

=========================================================================
